---- MODULE Spec2Model ----
(***************************************************************************)
(* Model of train_sppe/src/train.py: the training driver main() with its   *)
(* epoch loop, the two epoch functions train() and valid(), the checkpoint *)
(* writes and the directory bootstrap.                                     *)
(*                                                                         *)
(* Tensors are 2-channel (left, right keypoint) x 2-column heatmaps with   *)
(* integer entries.  Averages are kept as exact fractions [num, den].      *)
(* The loss of a batch is kept as the sum of squared differences, i.e. in  *)
(* units of 1/NumEl of the MSE mean; the accuracy as the number of correct *)
(* channels, i.e. in units of 1/NumChannels.                               *)
(***************************************************************************)
EXTENDS Integers, Sequences, FiniteSets, TLC

VARIABLES
    pc,          \* position of main(): see PcValues
    opt,         \* the global run configuration object `opt`
    fs,          \* set of directories that exist under ../exp
    m,           \* the model: output head, parameter version, train/eval mode
    optimizer,   \* the optimizer object (kind "none" before construction)
    writer,      \* the SummaryWriter: "none", "open" or "closed"
    i,           \* loop variable of `for i in range(opt.nEpochs)`
    batch,       \* number of batches the running train()/valid() has consumed
    lossLogger,  \* DataLogger of the running train()/valid()
    accLogger,   \* DataLogger of the running train()/valid()
    ret,         \* main()'s locals (loss, acc): the last returned pair
    last,        \* tensors and values of the batch processed last
    events,      \* history: add_scalar calls <<name, step>> in call order
    files,       \* history: torch.save calls (file name, epoch) in call order
    phases,      \* history: phase begin/end marks <<mark, epoch>>
    batchLog,    \* history: (loss, acc, n) of the batches of this invocation
    start,       \* history: opt.trainIters and opt.valIters at process start
    error,       \* exception that ended main(), "none" while running
    calls        \* number of directory-ensure calls made (SpecDir only)

vars == <<pc, opt, fs, m, optimizer, writer, i, batch, lossLogger, accLogger,
          ret, last, events, files, phases, batchLog, start, error, calls>>

(***************************************************************************)
(* Bounds of the model.                                                    *)
(***************************************************************************)
MaxEpochs == 3
MaxSnapshot == 2
ResumeIters == 3
TrainLen == 3
ValLen == 3
trainBatch == 2
validBatch == 2
LRFindIters == 1

(***************************************************************************)
(* Paths and os.mkdir.                                                     *)
(***************************************************************************)
Datasets == {"coco", "mpii"}
ExpIDs == {"default", "run2"}

\* "../exp"
ExpRoot == <<"exp">>
\* "../exp/{}".format(opt.dataset)
DatasetDir(ds) == <<"exp", ds>>
\* "../exp/{}/{}".format(opt.dataset, opt.expID)
ExpDir(ds, id) == <<"exp", ds, id>>

Parent(p) == SubSeq(p, 1, Len(p) - 1)

AllDirs == {ExpRoot} \cup {DatasetDir(ds) : ds \in Datasets}
           \cup {ExpDir(ds, id) : ds \in Datasets, id \in ExpIDs}

\* A directory exists only inside an existing directory ("..", the parent of
\* ../exp, always exists).
WellFormed(f) == \A p \in f : Len(p) > 1 => Parent(p) \in f
FsStates == {f \in SUBSET AllDirs : WellFormed(f)}

\* os.mkdir(p) on file system f: the new file system and the exception raised.
Mkdir(f, p) ==
    IF p \in f THEN [fs |-> f, made |-> <<>>, exc |-> "FileExistsError"]
    ELSE IF Len(p) > 1 /\ Parent(p) \notin f
         THEN [fs |-> f, made |-> <<>>, exc |-> "FileNotFoundError"]
    ELSE [fs |-> f \cup {p}, made |-> <<p>>, exc |-> "none"]

\* The ensure step without the os.path.exists test: mkdir is always tried.
EnsureDir_NoExistsTest(f, ds, id) ==
    LET first == Mkdir(f, ExpDir(ds, id)) IN
    IF first.exc # "FileNotFoundError" THEN first
    ELSE LET parent == Mkdir(f, DatasetDir(ds)) IN
         IF parent.exc # "none" THEN parent
         ELSE LET child == Mkdir(parent.fs, ExpDir(ds, id)) IN
              [fs |-> child.fs, made |-> parent.made \o child.made,
               exc |-> child.exc]

\* The ensure step with a handler that swallows FileNotFoundError.
EnsureDir_Swallow(f, ds, id) ==
    IF ExpDir(ds, id) \in f
    THEN [fs |-> f, made |-> <<>>, exc |-> "none"]
    ELSE LET first == Mkdir(f, ExpDir(ds, id)) IN
         IF first.exc # "FileNotFoundError" THEN first
         ELSE [fs |-> f, made |-> <<>>, exc |-> "none"]

\* Lines 124-129 (= 132-137): if the experiment directory is missing, mkdir it;
\* on FileNotFoundError mkdir the dataset directory and then the experiment
\* directory.  Any other exception, and any exception of the two mkdir calls
\* in the handler, propagates.
EnsureDir(f, ds, id) ==
    IF ExpDir(ds, id) \in f
    THEN [fs |-> f, made |-> <<>>, exc |-> "none"]
    ELSE LET first == Mkdir(f, ExpDir(ds, id)) IN
         IF first.exc # "FileNotFoundError" THEN first
         ELSE LET parent == Mkdir(f, DatasetDir(ds)) IN
              IF parent.exc # "none" THEN parent
              ELSE LET child == Mkdir(parent.fs, ExpDir(ds, id)) IN
                   [fs |-> child.fs, made |-> parent.made \o child.made,
                    exc |-> child.exc]

(***************************************************************************)
(* Values shared by the states of main().                                  *)
(***************************************************************************)
PcValues == {"start", "dirs", "head", "optim", "writer", "lrfind", "loop",
             "train", "snap", "vstart", "valid", "closed", "aborted", "ensure"}

NoAvg == [num |-> 0, den |-> 0]
NoLogger == [sum |-> 0, cnt |-> 0, avg |-> NoAvg]
NoOptimizer == [kind |-> "none", params |-> "none", state |-> 0, lr |-> "none"]
NoModel == [head |-> "none", ver |-> 0, mode |-> "none"]
NoRet == [loss |-> NoAvg, acc |-> NoAvg]
NoLast == [kind |-> "none"]

OptMethods == {"rmsprop", "adam", "sgd"}
LoadModels == {"", "model.pth", "missing.pth"}
ClassCounts == {17, 33}

\* The values of `opt` a process can start with; the experiment id is one of
\* ids.
OptValues(ids) ==
    [optMethod : OptMethods,
     nEpochs : 0..MaxEpochs,
     snapshot : 0..MaxSnapshot,
     dataset : Datasets,
     expID : ids,
     nClasses : ClassCounts,
     oClasses : {33},
     lr_find : BOOLEAN,
     trainIters : {0, ResumeIters},
     valIters : {0, ResumeIters},
     epoch : {0},
     loss : {NoAvg},
     acc : {NoAvg}]

\* The directories of this run's experiment, as far as they exist at start.
RunFsStates(ds, id) ==
    {{}, {ExpRoot}, {ExpRoot, DatasetDir(ds)},
     {ExpRoot, DatasetDir(ds), ExpDir(ds, id)}}

Init ==
    /\ pc = "start"
    /\ opt \in OptValues({"default"})
    /\ fs \in RunFsStates(opt.dataset, opt.expID)
    /\ m = NoModel
    /\ optimizer = NoOptimizer
    /\ writer = "none"
    /\ i = 0
    /\ batch = 0
    /\ lossLogger = NoLogger
    /\ accLogger = NoLogger
    /\ ret = NoRet
    /\ last = NoLast
    /\ events = <<>>
    /\ files = <<>>
    /\ phases = <<>>
    /\ batchLog = <<>>
    /\ start = [trainIters |-> opt.trainIters, valIters |-> opt.valIters]
    /\ error = "none"
    /\ calls = 0

\* An uncaught exception ends main().
Raise(exc) ==
    /\ pc' = "aborted"
    /\ error' = exc

(***************************************************************************)
(* Startup of main(), lines 118-181.                                       *)
(***************************************************************************)
\* Lines 118-123 and 130-131: createModel(), then load_state_dict from
\* opt.loadModel when it is set; torch.load raises on a path that is missing.
\* The parameters built or loaded here are version 0 of the model with its
\* original output head.
CreateModel ==
    /\ pc = "start"
    /\ \E lm \in LoadModels :
         /\ m' = [head |-> "orig", ver |-> 0, mode |-> "train"]
         /\ IF lm = "missing.pth"
            THEN Raise("FileNotFoundError")
            ELSE pc' = "dirs" /\ error' = error
    /\ UNCHANGED <<opt, fs, optimizer, writer, i, batch, lossLogger, accLogger,
                   ret, last, events, files, phases, batchLog, start, calls>>

\* Lines 124-129 / 132-137.
EnsureExpDir ==
    /\ pc = "dirs"
    /\ LET r == EnsureDir(fs, opt.dataset, opt.expID) IN
         /\ fs' = r.fs
         /\ IF r.exc = "none"
            THEN pc' = "head" /\ error' = error
            ELSE Raise(r.exc)
    /\ UNCHANGED <<opt, m, optimizer, writer, i, batch, lossLogger, accLogger,
                   ret, last, events, files, phases, batchLog, start, calls>>

\* The output layer replaced whatever the class counts are.
FreezeAndHead_Always ==
    /\ pc = "head"
    /\ m' = [m EXCEPT !.head = "new"]
    /\ pc' = "optim"
    /\ UNCHANGED <<opt, fs, optimizer, writer, i, batch, lossLogger, accLogger,
                   ret, last, events, files, phases, batchLog, start, error,
                   calls>>

\* Lines 138-146: every parameter is frozen; when the class counts differ the
\* output layer conv_out is replaced by a fresh one, whose parameters are new
\* and require gradients.
FreezeAndHead ==
    /\ pc = "head"
    /\ m' = [m EXCEPT !.head = IF opt.nClasses # opt.oClasses
                                THEN "new" ELSE @]
    /\ pc' = "optim"
    /\ UNCHANGED <<opt, fs, optimizer, writer, i, batch, lossLogger, accLogger,
                   ret, last, events, files, phases, batchLog, start, error,
                   calls>>

\* The optimizer choice with a silent default instead of the raise.
OptimizerFor_Default(method) ==
    IF method = "rmsprop"
    THEN [kind |-> "RMSprop", params |-> "conv_out", state |-> 0, lr |-> "LR"]
    ELSE [kind |-> "Adam", params |-> "all", state |-> 0, lr |-> "LR"]

\* Lines 148-159: the optimizer for opt.optMethod, over the parameters of
\* conv_out (rmsprop) or over all parameters (adam); any other method raises.
OptimizerFor(method) ==
    IF method = "rmsprop"
    THEN [kind |-> "RMSprop", params |-> "conv_out", state |-> 0, lr |-> "LR"]
    ELSE IF method = "adam"
    THEN [kind |-> "Adam", params |-> "all", state |-> 0, lr |-> "LR"]
    ELSE NoOptimizer

MakeOptimizer ==
    /\ pc = "optim"
    /\ optimizer' = OptimizerFor(opt.optMethod)
    /\ IF optimizer'.kind = "none"
       THEN Raise("Exception")
       ELSE pc' = "writer" /\ error' = error
    /\ UNCHANGED <<opt, fs, m, writer, i, batch, lossLogger, accLogger, ret,
                   last, events, files, phases, batchLog, start, calls>>

\* Lines 161-177: the SummaryWriter is opened, then the datasets (bound only
\* for opt.dataset == 'coco', so the DataLoader call raises NameError
\* otherwise), the loaders and the DataParallel wrapper are built.
OpenWriter ==
    /\ pc = "writer"
    /\ writer' = "open"
    /\ IF opt.dataset = "coco"
       THEN pc' = "lrfind" /\ error' = error
       ELSE Raise("NameError")
    /\ UNCHANGED <<opt, fs, m, optimizer, i, batch, lossLogger, accLogger, ret,
                   last, events, files, phases, batchLog, start, calls>>

\* A parameter is updated by optimizer.step() only if it requires gradients:
\* after line 139 that is the case for the parameters of a replaced conv_out
\* only, which both optimizers hold.
Trainable(model) == model.head = "new"

\* k optimizer steps on the model and on the optimizer's per-parameter state.
StepModel(model, k) ==
    IF Trainable(model) THEN [model EXCEPT !.ver = @ + k] ELSE model
StepOptimizer(o, model, k) ==
    IF Trainable(model) THEN [o EXCEPT !.state = @ + k] ELSE o

\* Lines 178-181: with opt.lr_find the learning-rate range test trains m with
\* the optimizer for up to num_iter iterations on an exponentially growing
\* learning rate; main() never resets either object afterwards.  The number
\* of iterations it makes before it stops is not decided in this file.
LRFind ==
    /\ pc = "lrfind"
    /\ IF opt.lr_find
       THEN \E k \in 0..LRFindIters :
              /\ m' = [StepModel(m, k) EXCEPT !.mode = "train"]
              /\ optimizer' = [StepOptimizer(optimizer, m, k)
                                 EXCEPT !.lr = IF k > 0 THEN "swept" ELSE @]
       ELSE UNCHANGED <<m, optimizer>>
    /\ pc' = "loop"
    /\ UNCHANGED <<opt, fs, writer, i, batch, lossLogger, accLogger, ret, last,
                   events, files, phases, batchLog, start, error, calls>>

(***************************************************************************)
(* Tensors: a heatmap is <<left channel, right channel>>, each channel a   *)
(* row of NumCols values.                                                  *)
(***************************************************************************)
Channels == 1..2
Cols == 1..2

\* utils.img.flip: mirror every channel horizontally.
flip(t) == [c \in Channels |-> [x \in Cols |-> t[c][3 - x]]]
\* utils.img.shuffleLR: swap the channels of each left/right keypoint pair.
shuffleLR(t) == [c \in Channels |-> t[3 - c]]
\* tensor.mul(setMask): the mask has one entry per channel.
mul(t, mask) == [c \in Channels |-> [x \in Cols |-> t[c][x] * mask[c]]]
\* (a + b) / 2, exact on the even sums the model's outputs give.
HalfSum(a, b) == [c \in Channels |-> [x \in Cols |-> (a[c][x] + b[c][x]) \div 2]]

\* torch.nn.MSELoss: the mean of the squared differences, kept as their sum.
criterion(a, b) ==
    LET sq(c, x) == (a[c][x] - b[c][x]) * (a[c][x] - b[c][x])
    IN sq(1, 1) + sq(1, 2) + sq(2, 1) + sq(2, 2)

\* utils.eval.accuracy(...)[0]: the share of keypoints whose predicted peak
\* is at the labelled peak, kept as their number.
Peak(row) == IF row[2] > row[1] THEN 2 ELSE 1
accuracy(out, labels) ==
    Cardinality({c \in Channels : Peak(out[c]) = Peak(labels[c])})

\* What the network can answer for a batch.
ModelOutputs == {<< <<0, 2>>, <<2, 0>> >>, << <<0, 2>>, <<0, 4>> >>}
\* The data set: every batch has the same labels; the right keypoint is
\* masked out in every batch but the first.
Labels == << <<2, 0>>, <<2, 0>> >>
SetMask(b) == IF b = 1 THEN <<1, 1>> ELSE <<1, 0>>

\* The sizes inps.size(0) of the batches a DataLoader over len samples with
\* the given batch_size delivers: full batches, then the remainder.
RECURSIVE BatchSizes(_, _)
BatchSizes(len, size) ==
    IF len <= 0 THEN <<>>
    ELSE IF len <= size THEN <<len>>
    ELSE <<size>> \o BatchSizes(len - size, size)

TrainSizes == BatchSizes(TrainLen, trainBatch)
ValSizes == BatchSizes(ValLen, validBatch)

(***************************************************************************)
(* utils.eval.DataLogger.                                                  *)
(***************************************************************************)
\* DataLogger(): sum, cnt and avg start at 0.
NewLogger == [sum |-> 0, cnt |-> 0, avg |-> [num |-> 0, den |-> 1]]

\* DataLogger.update(value, n): sum += value * n; cnt += n; avg = sum / cnt.
update(logger, value, n) ==
    [sum |-> logger.sum + value * n,
     cnt |-> logger.cnt + n,
     avg |-> [num |-> logger.sum + value * n, den |-> logger.cnt + n]]

(***************************************************************************)
(* The epoch loop of main(), lines 183-225, with train() and valid().      *)
(***************************************************************************)
Mark(name) == <<name, i>>

\* The epoch start with the train step counter reset for the epoch.
EpochStart_Reset ==
    /\ pc = "loop"
    /\ i < opt.nEpochs
    /\ opt' = [opt EXCEPT !.epoch = i, !.trainIters = 0]
    /\ lossLogger' = [sum |-> 0, cnt |-> 0, avg |-> [num |-> 0, den |-> 1]]
    /\ accLogger' = [sum |-> 0, cnt |-> 0, avg |-> [num |-> 0, den |-> 1]]
    /\ m' = [m EXCEPT !.mode = "train"]
    /\ batch' = 0
    /\ batchLog' = <<>>
    /\ phases' = Append(phases, Mark("TrainStart"))
    /\ pc' = "train"
    /\ UNCHANGED <<fs, optimizer, writer, i, ret, last, events, files, start,
                   error, calls>>

\* Lines 183-187 and 28-32: the next epoch begins; train() makes its two
\* DataLoggers and puts the model in train mode.
EpochStart ==
    /\ pc = "loop"
    /\ i < opt.nEpochs
    /\ opt' = [opt EXCEPT !.epoch = i]
    /\ lossLogger' = NewLogger
    /\ accLogger' = NewLogger
    /\ m' = [m EXCEPT !.mode = "train"]
    /\ batch' = 0
    /\ batchLog' = <<>>
    /\ phases' = Append(phases, Mark("TrainStart"))
    /\ pc' = "train"
    /\ UNCHANGED <<fs, optimizer, writer, i, ret, last, events, files, start,
                   error, calls>>

\* Close with the loop bound off by one: the writer may be closed while the
\* last epoch is still to run.
Close_Early ==
    /\ pc = "loop"
    /\ i + 1 >= opt.nEpochs
    /\ writer' = "closed"
    /\ phases' = Append(phases, Mark("Closed"))
    /\ pc' = "closed"
    /\ UNCHANGED <<opt, fs, m, optimizer, i, batch, lossLogger, accLogger, ret,
                   last, events, files, batchLog, start, error, calls>>

\* Line 225: range(opt.nEpochs) is exhausted and the writer is closed.
Close ==
    /\ pc = "loop"
    /\ i >= opt.nEpochs
    /\ writer' = "closed"
    /\ phases' = Append(phases, Mark("Closed"))
    /\ pc' = "closed"
    /\ UNCHANGED <<opt, fs, m, optimizer, i, batch, lossLogger, accLogger, ret,
                   last, events, files, batchLog, start, error, calls>>

\* Every batch weighted alike, as update(value) without the batch size does.
Weight_One(n) == 1

\* The weight DataLogger.update gets for a batch: inps.size(0), lines 45-46
\* and 95-96.
Weight(n) == n

\* Lines 34-64: one batch of train().  With n_gpu > 1 the loss is reduced by
\* mean(), which leaves the scalar that criterion returns as it is.
TrainBatch ==
    /\ pc = "train"
    /\ batch < Len(TrainSizes)
    /\ \E out \in ModelOutputs :
         LET n == TrainSizes[batch + 1]
             setMask == SetMask(batch + 1)
             loss == criterion(mul(out, setMask), Labels)
             acc == accuracy(mul(out, setMask), Labels)
         IN /\ accLogger' = update(accLogger, acc, Weight(n))
            /\ lossLogger' = update(lossLogger, loss, Weight(n))
            /\ batchLog' = Append(batchLog, [loss |-> loss, acc |-> acc, n |-> n])
            /\ last' = [kind |-> "train", out |-> out,
                        setMask |-> setMask, loss |-> loss, acc |-> acc,
                        ops |-> <<"zero_grad", "backward", "step">>]
    /\ m' = StepModel(m, 1)
    /\ optimizer' = StepOptimizer(optimizer, m, 1)
    /\ opt' = [opt EXCEPT !.trainIters = @ + 1]
    /\ events' = events \o << <<"Train/Loss", opt'.trainIters>>,
                              <<"Train/Acc", opt'.trainIters>> >>
    /\ batch' = batch + 1
    /\ UNCHANGED <<pc, fs, writer, i, ret, files, phases, start, error, calls>>

\* An exception of the framework inside a batch of train() (4.2: device out
\* of memory and the like) is caught nowhere.
TrainFail ==
    /\ pc = "train"
    /\ batch < Len(TrainSizes)
    /\ Raise("RuntimeError")
    /\ UNCHANGED <<opt, fs, m, optimizer, writer, i, batch, lossLogger,
                   accLogger, ret, last, events, files, phases, batchLog,
                   start, calls>>

\* Lines 66-68 and 189-197: train() returns its two averages, which main()
\* keeps in (loss, acc) and in opt.loss, opt.acc.
TrainReturn ==
    /\ pc = "train"
    /\ batch = Len(TrainSizes)
    /\ ret' = [loss |-> lossLogger.avg, acc |-> accLogger.avg]
    /\ opt' = [opt EXCEPT !.acc = accLogger.avg, !.loss = lossLogger.avg]
    /\ lossLogger' = NoLogger
    /\ accLogger' = NoLogger
    /\ last' = NoLast
    /\ phases' = Append(phases, Mark("TrainEnd"))
    /\ pc' = "snap"
    /\ UNCHANGED <<fs, m, optimizer, writer, i, batch, events, files, batchLog,
                   start, error, calls>>

\* The snapshot test counting epochs from 1: (i + 1) % opt.snapshot == 0.
IsSnapshotEpoch_FromOne(e, snapshot) == (e + 1) % snapshot = 0

\* Line 198: i % opt.snapshot == 0 (ZeroDivisionError for a snapshot of 0 is
\* raised by Snapshot below).
IsSnapshotEpoch(e, snapshot) == e % snapshot = 0

\* Lines 199-204: the three torch.save calls of a checkpoint, in call order.
CheckpointFiles(e) ==
    << [name |-> "model", epoch |-> e],
       [name |-> "option", epoch |-> e],
       [name |-> "optimizer", epoch |-> e] >>

\* Lines 197-204: on a snapshot epoch the three files are written one after
\* the other; a torch.save that fails (always, when the experiment directory
\* is missing) raises and leaves the files written before it.
Snapshot ==
    /\ pc = "snap"
    /\ IF opt.snapshot = 0
       THEN /\ Raise("ZeroDivisionError")
            /\ UNCHANGED <<files, phases>>
       ELSE IF IsSnapshotEpoch(i, opt.snapshot)
       THEN \E k \in 0..3 :
              /\ k > 0 => ExpDir(opt.dataset, opt.expID) \in fs
              /\ files' = files \o SubSeq(CheckpointFiles(opt.epoch), 1, k)
              /\ IF k = 3
                 THEN /\ phases' = Append(phases, Mark("Checkpoint"))
                      /\ pc' = "vstart"
                      /\ error' = error
                 ELSE /\ Raise("OSError")
                      /\ phases' = phases
       ELSE /\ pc' = "vstart"
            /\ UNCHANGED <<files, phases, error>>
    /\ UNCHANGED <<opt, fs, m, optimizer, writer, i, batch, lossLogger,
                   accLogger, ret, last, events, batchLog, start, calls>>

\* Lines 206 and 72-76: valid() makes its two DataLoggers and puts the model
\* in eval mode.
ValidStart ==
    /\ pc = "vstart"
    /\ lossLogger' = NewLogger
    /\ accLogger' = NewLogger
    /\ m' = [m EXCEPT !.mode = "eval"]
    /\ batch' = 0
    /\ batchLog' = <<>>
    /\ phases' = Append(phases, Mark("ValidStart"))
    /\ pc' = "valid"
    /\ UNCHANGED <<opt, fs, optimizer, writer, i, ret, last, events, files,
                   start, error, calls>>

\* The loss taken from the averaged output.
ValidLossInput_Averaged(out, flip_out) == HalfSum(flip_out, out)

\* The accuracy taken from the plain output.
ValidAccInput_Plain(out, flip_out) == out

\* Line 86: the loss of a validation batch is taken from `out` as the first
\* forward pass returned it.
ValidLossInput(out, flip_out) == out

\* Lines 91-93: the accuracy of a validation batch is taken from `out` after
\* it has been reassigned to (flip_out + out) / 2.
ValidAccInput(out, flip_out) == HalfSum(flip_out, out)

\* Lines 78-110: one batch of valid().  fwd is m(inps), fwdFlipped is
\* m(flip(inps)).
ValidBatch ==
    /\ pc = "valid"
    /\ batch < Len(ValSizes)
    /\ \E fwd \in ModelOutputs, fwdFlipped \in ModelOutputs :
         LET n == ValSizes[batch + 1]
             setMask == SetMask(batch + 1)
             flip_out == flip(shuffleLR(fwdFlipped))
             loss == criterion(mul(ValidLossInput(fwd, flip_out), setMask),
                               Labels)
             acc == accuracy(mul(ValidAccInput(fwd, flip_out), setMask),
                             Labels)
         IN /\ lossLogger' = update(lossLogger, loss, Weight(n))
            /\ accLogger' = update(accLogger, acc, Weight(n))
            /\ batchLog' = Append(batchLog, [loss |-> loss, acc |-> acc, n |-> n])
            /\ last' = [kind |-> "valid", out |-> fwd, flip_out |-> flip_out,
                        setMask |-> setMask, loss |-> loss, acc |-> acc,
                        ops |-> <<>>]
    /\ opt' = [opt EXCEPT !.valIters = @ + 1]
    /\ events' = events \o << <<"Valid/Loss", opt'.valIters>>,
                              <<"Valid/Acc", opt'.valIters>> >>
    /\ batch' = batch + 1
    /\ UNCHANGED <<pc, fs, m, optimizer, writer, i, ret, files, phases, start,
                   error, calls>>

\* An exception of the framework inside a batch of valid().
ValidFail ==
    /\ pc = "valid"
    /\ batch < Len(ValSizes)
    /\ Raise("RuntimeError")
    /\ UNCHANGED <<opt, fs, m, optimizer, writer, i, batch, lossLogger,
                   accLogger, ret, last, events, files, phases, batchLog,
                   start, calls>>

\* Lines 112-114 and 208-212: valid() returns its two averages into main()'s
\* (loss, acc) and the for loop steps to the next epoch.
ValidReturn ==
    /\ pc = "valid"
    /\ batch = Len(ValSizes)
    /\ ret' = [loss |-> lossLogger.avg, acc |-> accLogger.avg]
    /\ lossLogger' = NoLogger
    /\ accLogger' = NoLogger
    /\ last' = NoLast
    /\ phases' = Append(phases, Mark("ValidEnd"))
    /\ i' = i + 1
    /\ pc' = "loop"
    /\ UNCHANGED <<opt, fs, m, optimizer, writer, batch, events, files,
                   batchLog, start, error, calls>>

Next ==
    \/ CreateModel
    \/ EnsureExpDir
    \/ FreezeAndHead
    \/ MakeOptimizer
    \/ OpenWriter
    \/ LRFind
    \/ EpochStart
    \/ TrainBatch
    \/ TrainFail
    \/ TrainReturn
    \/ Snapshot
    \/ ValidStart
    \/ ValidBatch
    \/ ValidFail
    \/ ValidReturn
    \/ Close

Spec == Init /\ [][Next]_vars

(***************************************************************************)
(* The directory-ensure step of lines 124-137 on its own, called twice for *)
(* the same (dataset, experiment id) on any file system under ../exp.      *)
(***************************************************************************)
MaxCalls == 2

InitDir ==
    /\ pc = "ensure"
    /\ opt \in OptValues(ExpIDs)
    /\ opt.optMethod = "adam" /\ opt.nEpochs = 0 /\ opt.snapshot = 1
    /\ opt.nClasses = opt.oClasses /\ ~opt.lr_find
    /\ opt.trainIters = 0 /\ opt.valIters = 0
    /\ fs \in FsStates
    /\ m = NoModel
    /\ optimizer = NoOptimizer
    /\ writer = "none"
    /\ i = 0
    /\ batch = 0
    /\ lossLogger = NoLogger
    /\ accLogger = NoLogger
    /\ ret = NoRet
    /\ last = NoLast
    /\ events = <<>>
    /\ files = <<>>
    /\ phases = <<>>
    /\ batchLog = <<>>
    /\ start = [trainIters |-> opt.trainIters, valIters |-> opt.valIters]
    /\ error = "none"
    /\ calls = 0

\* One run of lines 124-129; `last` keeps the file system the call found and
\* the directories it made.
EnsureCall ==
    /\ pc = "ensure"
    /\ calls < MaxCalls
    /\ error = "none"
    /\ LET r == EnsureDir(fs, opt.dataset, opt.expID) IN
         /\ fs' = r.fs
         /\ error' = r.exc
         /\ last' = [kind |-> "ensure", before |-> fs, made |-> r.made]
    /\ calls' = calls + 1
    /\ UNCHANGED <<pc, opt, m, optimizer, writer, i, batch, lossLogger,
                   accLogger, ret, events, files, phases, batchLog, start>>

NextDir == EnsureCall

SpecDir == InitDir /\ [][NextDir]_vars

(***************************************************************************)
(* Properties of the epoch loop.                                           *)
(***************************************************************************)
IsPrefix(a, b) == Len(a) <= Len(b) /\ SubSeq(b, 1, Len(a)) = a
Range(seq) == {seq[k] : k \in 1..Len(seq)}
LoopPcs == {"loop", "train", "snap", "vstart", "valid", "closed"}

\* The phase marks of a whole run of n epochs with snapshot interval s, from
\* epoch e on.
RECURSIVE PhasesFrom(_, _, _)
PhasesFrom(e, n, s) ==
    IF e >= n THEN << <<"Closed", e>> >>
    ELSE << <<"TrainStart", e>>, <<"TrainEnd", e>> >>
         \o (IF s > 0 /\ e % s = 0 THEN << <<"Checkpoint", e>> >> ELSE <<>>)
         \o << <<"ValidStart", e>>, <<"ValidEnd", e>> >>
         \o PhasesFrom(e + 1, n, s)

PhaseOrder == IsPrefix(phases, PhasesFrom(0, opt.nEpochs, opt.snapshot))

\* C1 as stated: the phases of every epoch run in the order train, checkpoint
\* (exactly on snapshot epochs), valid, epoch after epoch, and the writer is
\* closed only after ValidPhase(nEpochs - 1) has ended.
C1_ClosedAfterLastValid ==
    /\ PhaseOrder
    /\ writer = "closed" => <<"ValidEnd", opt.nEpochs - 1>> \in Range(phases)

\* C1 amended: the phases of every epoch run in the order train, checkpoint
\* (exactly on snapshot epochs), valid, epoch after epoch without overlap;
\* the writer is closed only after the ValidPhase of every epoch in
\* [0, nEpochs) has ended, which for nEpochs >= 1 means right after
\* ValidPhase(nEpochs - 1) and for nEpochs = 0 right after Init, with no
\* phase before it.
C1_PhaseOrder ==
    /\ PhaseOrder
    /\ writer = "closed" =>
         /\ phases = PhasesFrom(0, opt.nEpochs, opt.snapshot)
         /\ \A e \in 0..(opt.nEpochs - 1) : <<"ValidEnd", e>> \in Range(phases)
         /\ opt.nEpochs >= 1 =>
              phases[Len(phases) - 1] = <<"ValidEnd", opt.nEpochs - 1>>
         /\ opt.nEpochs = 0 => phases = << <<"Closed", 0>> >>

C1_Witness ==
    /\ pc = "closed"
    /\ opt.nEpochs = 3
    /\ opt.snapshot = 2
    /\ <<"Checkpoint", 2>> \in Range(phases)
    /\ <<"Checkpoint", 1>> \notin Range(phases)

\* ceil(n / s) for s >= 1.
CeilDiv(n, s) == (n + s - 1) \div s

ModelFiles == SelectSeq(files, LAMBDA f : f.name = "model")

\* C2: at the end of a complete run of N epochs with snapshot interval
\* S >= 1 exactly ceil(N/S) checkpoint triples (model_<e>.pth, option.pth,
\* optimizer.pth) have been written, the k-th one at epoch (k-1)*S, so
\* exactly at the epochs with e % S = 0; and at every moment of any run the
\* epoch numbers of the model files written so far are strictly increasing.
C2_CheckpointCadence ==
    /\ \A j, k \in 1..Len(ModelFiles) :
         j < k => ModelFiles[j].epoch < ModelFiles[k].epoch
    /\ (pc = "closed" /\ opt.snapshot >= 1) =>
         /\ Len(files) = 3 * CeilDiv(opt.nEpochs, opt.snapshot)
         /\ Len(ModelFiles) = CeilDiv(opt.nEpochs, opt.snapshot)
         /\ \A k \in 1..Len(ModelFiles) :
              /\ ModelFiles[k].epoch = (k - 1) * opt.snapshot
              /\ files[3 * k - 2] = [name |-> "model", epoch |-> (k - 1) * opt.snapshot]
              /\ files[3 * k - 1].name = "option"
              /\ files[3 * k].name = "optimizer"
         /\ \A e \in 0..(opt.nEpochs - 1) :
              (e % opt.snapshot = 0) <=>
                 [name |-> "model", epoch |-> e] \in Range(files)

C2_Witness ==
    /\ pc = "closed"
    /\ opt.nEpochs = 3
    /\ opt.snapshot = 2
    /\ Len(files) = 6
    /\ ModelFiles[2].epoch = 2

\* C3 as stated: whenever the epoch loop has ended, normally or by an
\* exception raised in train(), valid() or a checkpoint write, the opened
\* writer has been closed.
C3_ClosedOnEveryExit ==
    (pc \in {"closed", "aborted"} /\ phases # <<>>) => writer = "closed"

\* C4: with an optimizer method other than "rmsprop" and "adam" main() never
\* gets past the construction of the optimizer, where it raises: no batch is
\* processed, the step counters keep their start values, no metric event is
\* emitted, no checkpoint file is written and no writer is opened.
C4_UnknownOptimizerFatal ==
    opt.optMethod \notin {"rmsprop", "adam"} =>
        /\ pc \in {"start", "dirs", "head", "optim", "aborted"}
        /\ pc = "aborted" => error # "none"
        /\ optimizer = NoOptimizer
        /\ opt.trainIters = start.trainIters
        /\ opt.valIters = start.valIters
        /\ events = <<>>
        /\ files = <<>>
        /\ batchLog = <<>>
        /\ phases = <<>>
        /\ writer = "none"

C4_Witness ==
    /\ opt.optMethod = "sgd"
    /\ pc = "aborted"
    /\ error = "Exception"
    /\ opt.nEpochs > 0

\* The output valid() averages for the batch processed last.
LastAveraged == HalfSum(last.flip_out, last.out)

\* C5 as stated: for every batch of valid() both the loss and the accuracy
\* that are accumulated are computed from the average of the plain and the
\* flip-corrected output.
C5_LossAndAccFromAverage ==
    last.kind = "valid" =>
        /\ last.loss = criterion(mul(LastAveraged, last.setMask), Labels)
        /\ last.acc = accuracy(mul(LastAveraged, last.setMask), Labels)
        /\ batchLog[Len(batchLog)].loss = last.loss
        /\ batchLog[Len(batchLog)].acc = last.acc

\* C5 amended: for every batch of valid() the accuracy that is accumulated
\* is computed from the average of the plain and the flip-corrected output
\* (flip back and left/right channel remap of the second forward pass),
\* while the loss that is accumulated is computed from the plain output of
\* the first forward pass, before the averaging step.
C5_AccFromAverageLossFromPlain ==
    last.kind = "valid" =>
        /\ last.flip_out \in {flip(shuffleLR(o)) : o \in ModelOutputs}
        /\ last.loss = criterion(mul(last.out, last.setMask), Labels)
        /\ last.acc = accuracy(mul(LastAveraged, last.setMask), Labels)
        /\ batchLog[Len(batchLog)].loss = last.loss
        /\ batchLog[Len(batchLog)].acc = last.acc

C5_Witness ==
    /\ last.kind = "valid"
    /\ last.acc # accuracy(mul(last.out, last.setMask), Labels)
    /\ last.loss # criterion(mul(LastAveraged, last.setMask), Labels)
    /\ last.flip_out # shuffleLR(last.flip_out)
    /\ last.flip_out # flip(last.flip_out)

RunDir == ExpDir(opt.dataset, opt.expID)

\* C6: whenever a checkpoint file has been written, and from the end of the
\* directory step of Init on as long as main() runs, the experiment
\* directory exists.  The directory step leaves it present from each of
\* the three start states it survives (directory present, only the dataset
\* directory present, dataset directory missing), making the dataset
\* directory first and the experiment directory second when the former is
\* missing; where it raises, nothing has been written.
C6_DirBeforeWrite ==
    /\ files # <<>> => RunDir \in fs
    /\ pc \in {"head", "optim", "writer", "lrfind"} \cup LoopPcs => RunDir \in fs
    /\ pc = "dirs" =>
         LET r == EnsureDir(fs, opt.dataset, opt.expID) IN
         /\ files = <<>>
         /\ ExpRoot \in fs => r.exc = "none" /\ RunDir \in r.fs
         /\ RunDir \in fs => r.made = <<>>
         /\ (DatasetDir(opt.dataset) \in fs /\ RunDir \notin fs) =>
              r.made = <<RunDir>>
         /\ (ExpRoot \in fs /\ DatasetDir(opt.dataset) \notin fs) =>
              r.made = <<DatasetDir(opt.dataset), RunDir>>
    /\ (pc = "aborted" /\ phases = <<>>) => files = <<>>

C6_Witness ==
    /\ pc = "valid"
    /\ Len(files) = 3
    /\ RunDir \in fs

\* C7 as stated: from any start state of the file system two directory
\* steps in a row for the same (dataset, experiment id) never raise, each
\* leaves the experiment directory present, and the second leaves the file
\* system as it found it.
C7_NeverRaises ==
    calls >= 1 =>
        /\ error = "none"
        /\ RunDir \in fs
        /\ calls >= 2 => fs = last.before

\* C7 amended: from any start state of the file system in which ../exp
\* exists, directory steps in a row for the same (dataset, experiment id)
\* never raise, each leaves the experiment directory present, and every
\* call after the first makes no directory and leaves the file system as it
\* found it; where ../exp is missing the first call raises FileNotFoundError
\* from its handler and makes nothing.
C7_EnsureIdempotent ==
    calls >= 1 =>
        /\ ExpRoot \in last.before =>
             /\ error = "none"
             /\ RunDir \in fs
             /\ last.before \subseteq fs
             /\ calls >= 2 => fs = last.before /\ last.made = <<>>
        /\ ExpRoot \notin last.before =>
             /\ calls = 1
             /\ error = "FileNotFoundError"
             /\ fs = last.before
             /\ last.made = <<>>

C7_Witness ==
    /\ calls = 2
    /\ error = "none"
    /\ fs = last.before
    /\ fs = {ExpRoot, DatasetDir(opt.dataset), RunDir}

\* The model and optimizer state a training step writes.
Params(model, o) == <<model.head, model.ver, o.state, o.lr>>

TrainOps == <<"zero_grad", "backward", "step">>

\* C8 as stated, in its clauses about single states: the batch processed
\* last made exactly one zero_grad, backward, step sequence if it was a
\* batch of train() and none of them if it was a batch of valid(), and at
\* the start of TrainPhase(0) the model is the one createModel() built or
\* load_state_dict loaded.
C8_StartsFromLoadedState ==
    /\ last.kind = "train" => last.ops = TrainOps
    /\ last.kind = "valid" => last.ops = <<>>
    /\ (pc = "train" /\ i = 0 /\ batch = 0) => m.head = "orig" /\ m.ver = 0

\* C8 amended: during the epoch loop ModelState and OptimizerState are
\* written only by a batch of train(), which makes exactly one zero_grad,
\* backward, step sequence; CheckpointPhase, every batch of valid() and the
\* phase changes leave both unchanged, so the state at the start of
\* TrainPhase(e+1) is the one at the end of TrainPhase(e).  Init leaves both
\* unchanged after the construction of the optimizer when opt.lr_find is
\* off, and the model at the start of TrainPhase(0) is then the loaded or
\* created one with its output layer conv_out replaced by a fresh one when
\* nClasses differs from oClasses.
C8_StateAtTrainStart ==
    /\ last.kind = "train" => last.ops = TrainOps
    /\ last.kind = "valid" => last.ops = <<>>
    /\ (pc = "train" /\ i = 0 /\ batch = 0 /\ ~opt.lr_find) =>
         /\ m.head = (IF opt.nClasses # opt.oClasses THEN "new" ELSE "orig")
         /\ m.ver = 0
         /\ optimizer.state = 0
         /\ optimizer.lr = "LR"

C8_Step ==
    LET trainBatchStep == pc = "train" /\ batch' = batch + 1
    IN /\ trainBatchStep =>
            /\ last'.ops = TrainOps
            /\ m'.head = m.head
            /\ optimizer'.lr = optimizer.lr
            /\ m'.ver = (IF m.head = "new" THEN m.ver + 1 ELSE m.ver)
            /\ optimizer'.state =
                 (IF m.head = "new" THEN optimizer.state + 1 ELSE optimizer.state)
       /\ (pc \in LoopPcs /\ ~trainBatchStep) =>
            Params(m', optimizer') = Params(m, optimizer)
       /\ (pc \in {"writer", "lrfind"} /\ ~opt.lr_find) =>
            Params(m', optimizer') = Params(m, optimizer)

C8_WrittenOnlyByTrainStep == [](C8_StateAtTrainStart) /\ [][C8_Step]_vars

C8_Witness ==
    /\ pc = "train"
    /\ i = 1
    /\ batch = 0
    /\ ~opt.lr_find
    /\ m.head = "new"
    /\ m.ver = Len(TrainSizes)
    /\ optimizer.state = Len(TrainSizes)
    /\ Len(files) = 3

\* Sums over the batches of one invocation.
RECURSIVE SumN(_)
SumN(log) == IF log = <<>> THEN 0 ELSE log[1].n + SumN(Tail(log))
RECURSIVE SumLossN(_)
SumLossN(log) ==
    IF log = <<>> THEN 0 ELSE log[1].loss * log[1].n + SumLossN(Tail(log))
RECURSIVE SumAccN(_)
SumAccN(log) ==
    IF log = <<>> THEN 0 ELSE log[1].acc * log[1].n + SumAccN(Tail(log))

\* The fraction avg equals num / den.
IsFraction(avg, num, den) == avg.den > 0 /\ avg.num * den = num * avg.den

\* The pair in ret is the batch-size-weighted mean of the batches in log.
IsWeightedMean(log) ==
    /\ IsFraction(ret.loss, SumLossN(log), SumN(log))
    /\ IsFraction(ret.acc, SumAccN(log), SumN(log))

\* C9: the pair train() returns (and main() stores in opt.loss, opt.acc) and
\* the pair valid() returns are the batch-size-weighted means
\* sum(loss_i*n_i)/sum(n_i) and sum(acc_i*n_i)/sum(n_i) over exactly the
\* batches of that one invocation, each batch counted once with its size
\* n_i > 0 as weight, whatever earlier epochs returned.
C9_WeightedMeans ==
    /\ pc = "snap" =>
         /\ Len(batchLog) = Len(TrainSizes)
         /\ \A k \in 1..Len(batchLog) :
              batchLog[k].n = TrainSizes[k] /\ batchLog[k].n > 0
         /\ IsWeightedMean(batchLog)
         /\ opt.loss = ret.loss /\ opt.acc = ret.acc
    /\ (pc = "loop" /\ i > 0) =>
         /\ Len(batchLog) = Len(ValSizes)
         /\ \A k \in 1..Len(batchLog) :
              batchLog[k].n = ValSizes[k] /\ batchLog[k].n > 0
         /\ IsWeightedMean(batchLog)
    /\ pc \in {"train", "valid"} =>
         /\ Len(batchLog) = batch
         /\ lossLogger.sum = SumLossN(batchLog)
         /\ accLogger.sum = SumAccN(batchLog)
         /\ lossLogger.cnt = SumN(batchLog)
         /\ accLogger.cnt = SumN(batchLog)

C9_Witness ==
    /\ pc = "snap"
    /\ i = 1
    /\ Len(batchLog) = 2
    /\ batchLog[1].n # batchLog[2].n
    /\ batchLog[1].loss # batchLog[2].loss
    /\ batchLog[1].acc # batchLog[2].acc

TrainEvents == SelectSeq(events, LAMBDA e : e[1] \in {"Train/Loss", "Train/Acc"})
ValidEvents == SelectSeq(events, LAMBDA e : e[1] \in {"Valid/Loss", "Valid/Acc"})

\* The events of one loop: for every step since process start, in order, a
\* loss event and an accuracy event keyed by the counter after its increment.
EventsCount(evs, lossName, accName, first, current) ==
    /\ Len(evs) = 2 * (current - first)
    /\ \A k \in 1..(current - first) :
         /\ evs[2 * k - 1] = <<lossName, first + k>>
         /\ evs[2 * k] = <<accName, first + k>>

\* The number of batches the train and the valid loop have processed at the
\* present position of main().
TrainBatchesDone ==
    IF pc \notin LoopPcs THEN opt.trainIters - start.trainIters
    ELSE IF pc = "train" THEN i * Len(TrainSizes) + batch
    ELSE IF pc \in {"snap", "vstart", "valid"} THEN (i + 1) * Len(TrainSizes)
    ELSE i * Len(TrainSizes)
ValidBatchesDone ==
    IF pc \notin LoopPcs THEN opt.valIters - start.valIters
    ELSE IF pc = "valid" THEN i * Len(ValSizes) + batch
    ELSE i * Len(ValSizes)

\* C10: opt.trainIters is its start value plus the number of train batches
\* processed so far and opt.valIters its start value plus the number of
\* validation batches processed so far (so neither is ever reset, decreased
\* or touched by the other loop or by a checkpoint, and after e full epochs
\* of B train batches trainIters is its start value plus e*B); the events of
\* each loop are, per batch, a Loss event and an Acc event keyed by the
\* counter after its increment, so that the step indices of each event name
\* are strictly increasing and never repeat.
C10_StepCounters ==
    /\ opt.trainIters = start.trainIters + TrainBatchesDone
    /\ opt.valIters = start.valIters + ValidBatchesDone
    /\ pc \in {"start", "dirs", "head", "optim", "writer", "lrfind"} =>
         opt.trainIters = start.trainIters /\ opt.valIters = start.valIters
    /\ EventsCount(TrainEvents, "Train/Loss", "Train/Acc",
                   start.trainIters, opt.trainIters)
    /\ EventsCount(ValidEvents, "Valid/Loss", "Valid/Acc",
                   start.valIters, opt.valIters)
    /\ Len(events) = Len(TrainEvents) + Len(ValidEvents)
    /\ \A j, k \in 1..Len(events) :
         (j < k /\ events[j][1] = events[k][1]) => events[j][2] < events[k][2]

C10_Witness ==
    /\ pc = "loop"
    /\ i = 2
    /\ start.trainIters = ResumeIters
    /\ start.valIters = 0
    /\ opt.trainIters = ResumeIters + 2 * Len(TrainSizes)
    /\ opt.valIters = 2 * Len(ValSizes)

====
